---- MODULE Spec2Model ----
(***************************************************************************)
(* Model of download_pipelines/pipe_utils.py: the Pipe combinator engine   *)
(* (Pipe, maybe, safe_iter, flatten) and the derived combinators p_map,    *)
(* p_filter, p_reduce, join and concat.                                    *)
(*                                                                         *)
(* Python values are records [k, i, n, s]: k is the runtime type, i an     *)
(* integer payload, n a function name, s the elements (or, for a function, *)
(* the values its closure captured).  A call yields an outcome             *)
(* [ok, v, w, c]: ok is FALSE when an Exception is raised, v is the        *)
(* returned value, w counts the warnings.warn calls made and c logs the    *)
(* invocations of user functions in order.  Keyword arguments and          *)
(* mappings are not modelled; "fault" is a Python Exception, the class     *)
(* maybe catches.  The later sections model the connections of             *)
(* connection_utils.py, the pipeline stages of download_utils.py, the      *)
(* extraction functions of uncompress_utils.py and progress_bar of         *)
(* helper_utils.py.                                                        *)
(***************************************************************************)
EXTENDS Integers, Sequences, FiniteSets, TLC

\* ------------------------------------------------------------------ values
V(k, i, n, s) == [k |-> k, i |-> i, n |-> n, s |-> s]
PyNone == V("none", 0, "", <<>>)
PyInt(x) == V("int", x, "", <<>>)
\* the empty string "", an atomic scalar for safe_iter
PyStr == V("str", 0, "", <<>>)
\* the string made of the characters chars (a file name, a path)
PyString(chars) == V("str", 0, "", chars)
PyList(s) == V("list", 0, "", s)
\* a tuple, range, map or filter object: iterable, not a list
PyIter(s) == V("iter", 0, "", s)
\* a set or frozenset: s lists its elements once each, in the order
\* iteration yields them (the model fixes one order, see SetOf)
PySet(s) == V("set", 0, "", s)
\* a function object named n whose closure captured the values s
PyFn(n, s) == V("fn", 0, n, s)
PyTrue == PyInt(1)
PyFalse == PyInt(0)

\* isinstance(it, Iterable)
Iterable(x) == x.k \in {"list", "iter", "set", "str"}
\* the elements iteration yields (for a string, its characters as strings)
Elems(x) == IF x.k = "str" THEN [j \in 1..Len(x.s) |-> PyString(<<x.s[j]>>)] ELSE x.s
\* bool(x)
Truthy(x) ==
  CASE x.k = "none" -> FALSE
    [] x.k = "int" -> x.i # 0
    [] x.k = "str" -> Len(x.s) > 0
    [] x.k \in {"list", "iter", "set"} -> Len(x.s) > 0
    [] OTHER -> TRUE

\* hash(x) works: lists and sets are unhashable, a tuple is hashable when
\* its elements are (an "iter" value stands for a tuple here; a frozenset
\* is only met as an element of an input set, never hashed again)
RECURSIVE Hashable(_)
Hashable(x) ==
  CASE x.k \in {"list", "set"} -> FALSE
    [] x.k = "iter" -> \A j \in 1..Len(x.s) : Hashable(x.s[j])
    [] OTHER -> TRUE

\* The order in which the model iterates over the elements of a set: by
\* type, then by integer value, then element by element.  Python's own
\* order is an implementation detail no claim depends on.
KindRank(k) ==
  CASE k = "none" -> 0 [] k = "int" -> 1 [] k = "str" -> 2 [] k = "iter" -> 3
    [] k = "list" -> 4 [] k = "set" -> 5 [] OTHER -> 6
\* the characters strings are made of
Alphabet == <<"/", ".", "a", "d", "e", "f", "m", "p", "s", "t">>
CharRank(ch) == CHOOSE j \in 1..Len(Alphabet) : Alphabet[j] = ch
RECURSIVE Before(_, _)
Before(x, y) ==
  IF x.k # y.k THEN KindRank(x.k) < KindRank(y.k)
  ELSE IF x.i # y.i THEN x.i < y.i
  ELSE IF x.k = "str"
    THEN \E j \in 1..Len(y.s) :
           /\ \A h \in 1..(j - 1) : h <= Len(x.s) /\ x.s[h] = y.s[h]
           /\ (j > Len(x.s) \/ CharRank(x.s[j]) < CharRank(y.s[j]))
  ELSE \E j \in 1..Len(y.s) :
         /\ \A h \in 1..(j - 1) : h <= Len(x.s) /\ x.s[h] = y.s[h]
         /\ (j > Len(x.s) \/ (x.s[j] # y.s[j] /\ Before(x.s[j], y.s[j])))
\* x inserted into the ordered duplicate-free sequence s
RECURSIVE Insert(_, _)
Insert(x, s) ==
  IF s = <<>> THEN <<x>>
  ELSE IF x = s[1] THEN s
  ELSE IF Before(x, s[1]) THEN <<x>> \o s
  ELSE <<s[1]>> \o Insert(x, Tail(s))
\* the elements of the set built from the elements s
RECURSIVE SetOf(_)
SetOf(s) == IF s = <<>> THEN <<>> ELSE Insert(s[1], SetOf(Tail(s)))
\* set(x)
PySetOf(x) ==
  IF Iterable(x) /\ \A j \in 1..Len(x.s) : Hashable(Elems(x)[j])
    THEN [ok |-> TRUE, v |-> PySet(SetOf(Elems(x))), w |-> 0, c |-> <<>>]
    ELSE [ok |-> FALSE, v |-> PyNone, w |-> 0, c |-> <<>>]

\* ---------------------------------------------------------------- outcomes
Ret(x) == [ok |-> TRUE, v |-> x, w |-> 0, c |-> <<>>]
Raise == [ok |-> FALSE, v |-> PyNone, w |-> 0, c |-> <<>>]
\* o2 evaluated after o1: o2's result, both effects
Then(o1, o2) == [ok |-> o2.ok, v |-> o2.v, w |-> o1.w + o2.w, c |-> o1.c \o o2.c]

\* (mutant: the Exception is swallowed without a warning)
maybe_silent(o) == IF o.ok THEN o ELSE [ok |-> TRUE, v |-> PyNone, w |-> o.w, c |-> o.c]
\* maybe(function)(*args): the call's outcome, an Exception replaced by
\* None plus one warnings.warn
maybe(o) == IF o.ok THEN o ELSE [ok |-> TRUE, v |-> PyNone, w |-> o.w + 1, c |-> o.c]

\* -------------------------------------------------------------- normalizer
RECURSIVE safe_iter(_)
\* (mutant: a set whose normalized elements are unhashable is returned as
\* it came)
safe_iter_keep_set(it) ==
  IF Iterable(it) /\ it.k # "str"
    THEN LET elems == [j \in 1..Len(it.s) |-> safe_iter(it.s[j])] IN
         IF it.k = "set"
           THEN IF \A j \in 1..Len(elems) : Hashable(elems[j])
                  THEN PySet(SetOf(elems))
                  ELSE it
           ELSE PyList(elems)
    ELSE it
\* safe_iter(it); mappings are not modelled
safe_iter(it) ==
  IF Iterable(it) /\ it.k # "str"
    THEN LET elems == [j \in 1..Len(it.s) |-> safe_iter(it.s[j])] IN
         IF it.k = "set" /\ \A j \in 1..Len(elems) : Hashable(elems[j])
           THEN PySet(SetOf(elems))
           ELSE PyList(elems)
    ELSE it

RECURSIVE flatten(_)
\* (mutant: a single wrapped list is unwrapped once, not flattened further)
flatten_unwrap_once(x) ==
  LET it == safe_iter(x) IN
  IF it.k = "list" /\ Len(it.s) > 0
    THEN IF Len(it.s) = 1 /\ it.s[1].k = "list"
           THEN it.s[1]
           ELSE PyList([j \in 1..Len(it.s) |-> flatten(it.s[j])])
    ELSE it
\* flatten(it); mappings are not modelled
flatten(x) ==
  LET it == safe_iter(x) IN
  IF it.k = "list" /\ Len(it.s) > 0
    THEN IF Len(it.s) = 1 /\ it.s[1].k = "list"
           THEN flatten(it.s[1])
           ELSE PyList([j \in 1..Len(it.s) |-> flatten(it.s[j])])
    ELSE it

\* ---------------------------------------------------------- user functions
\* x + y
PyAdd(x, y) ==
  CASE x.k = "int" /\ y.k = "int" -> Ret(PyInt(x.i + y.i))
    [] x.k = "list" /\ y.k = "list" -> Ret(PyList(x.s \o y.s))
    [] x.k = "str" /\ y.k = "str" -> Ret(PyStr)
    [] OTHER -> Raise

\* x in it
PyIn(x, it) == \E j \in 1..Len(it.s) : it.s[j] = x

\* The functions user code passes to Pipe and to the combinators (the
\* lambdas of the doctests); args is the positional argument list.
UserFn(n, args) ==
  CASE n = "wrap" /\ Len(args) = 1 ->          \* lambda x: [[[x]]]
         Ret(PyList(<<PyList(<<PyList(<<args[1]>>)>>)>>))
    [] n = "append2" /\ Len(args) = 1 ->       \* lambda x: x + [2]
         PyAdd(args[1], PyList(<<PyInt(2)>>))
    [] n = "inc" /\ Len(args) = 1 ->           \* lambda x: x + 1
         PyAdd(args[1], PyInt(1))
    [] n = "int" /\ Len(args) = 1 ->           \* int
         IF args[1].k = "int" THEN Ret(args[1]) ELSE Raise
    [] n = "odd" /\ Len(args) = 1 ->           \* lambda x: x % 2
         IF args[1].k = "int" THEN Ret(PyInt(args[1].i % 2)) ELSE Raise
    [] n = "lookup" /\ Len(args) = 1 ->        \* {1: 10, 3: 30}.get
         IF ~Hashable(args[1]) THEN Raise       \* TypeError: unhashable
         ELSE IF args[1] \in {PyInt(1), PyInt(3)} THEN Ret(PyInt(10 * args[1].i))
         ELSE Ret(PyNone)
    [] n = "add" /\ Len(args) = 2 ->           \* lambda x, y: x + y
         PyAdd(args[1], args[2])
    [] n = "always_true" /\ Len(args) = 2 ->   \* lambda it2_elem, it1: True
         Ret(PyTrue)
    [] n = "not_in" /\ Len(args) = 2 ->        \* lambda x, it: x not in it
         IF args[2].k \in {"list", "iter"}
           THEN Ret(IF PyIn(args[1], args[2]) THEN PyFalse ELSE PyTrue)
           ELSE Raise
    [] n = "self_div" /\ Len(args) = 2 ->      \* lambda x, it: x / x == 1
         IF args[1].k = "int" /\ args[1].i # 0 THEN Ret(PyTrue) ELSE Raise
    [] n = "set" /\ Len(args) = 1 ->           \* lambda it: set(it)
         PySetOf(args[1])
    [] n = "intersection" /\ Len(args) = 2 ->  \* lambda x, y: x.intersection(y)
         IF args[1].k = "set" /\ PySetOf(args[2]).ok
           THEN Ret(PySet(SelectSeq(args[1].s, LAMBDA e : PyIn(e, args[2]))))
           ELSE Raise
    [] n = "union" /\ Len(args) = 2 ->         \* lambda x, y: x.union(y)
         IF args[1].k = "set" /\ PySetOf(args[2]).ok
           THEN Ret(PySet(SetOf(args[1].s \o args[2].s)))
           ELSE Raise
    [] OTHER -> Raise                          \* TypeError: wrong arity
UserFns == {"wrap", "append2", "inc", "int", "odd", "lookup", "add",
            "always_true", "not_in", "self_div", "set", "intersection", "union"}

\* one invocation of the user function n, logged
UserCall(n, args) ==
  LET o == UserFn(n, args) IN [o EXCEPT !.c = <<[f |-> n, a |-> args]>>]

\* -------------------------------------------------------------------- Pipe
\* Pipe.__init__: the Pipe object holding function (wrapped by maybe when
\* it is called, see PipeFunction)
Pipe(function) == V("pipe", 0, "", <<function>>)
\* (mutant: the closure applies other before self)
Pipe_or_swapped(self, other) == Pipe(PyFn("Pipe.__or__", <<other, self>>))
\* Pipe.__or__: Pipe(lambda it: it | self | other)
Pipe_or(self, other) == Pipe(PyFn("Pipe.__or__", <<self, other>>))
\* Pipe.__call__: Pipe(lambda x: self.function(x, *args))
Pipe_call(self, args) == Pipe(PyFn("Pipe.__call__", <<self>> \o args))

\* the module-level Pipe objects made by the @Pipe decorator
filter_none == Pipe(PyFn("filter_none", <<>>))
p_map == Pipe(PyFn("p_map", <<>>))
p_filter == Pipe(PyFn("p_filter", <<>>))
p_reduce == Pipe(PyFn("p_reduce", <<>>))
join == Pipe(PyFn("join", <<>>))
concat == Pipe(PyFn("concat", <<>>))
to_set == Pipe(PyFn("to_set", <<>>))
set_inter == Pipe(PyFn("set_inter", <<>>))
set_union == Pipe(PyFn("set_union", <<>>))

\* list(x)
PyListOf(x) == IF Iterable(x) THEN Ret(PyList(Elems(x))) ELSE Raise

\* list(itertools.chain.from_iterable(iterables))
RECURSIVE Chain(_)
Chain(s) == IF s = <<>> THEN <<>> ELSE Elems(s[1]) \o Chain(Tail(s))
chain_from_iterable(iterables) ==
  IF \A j \in 1..Len(iterables.s) : Iterable(iterables.s[j])
    THEN Ret(PyList(Chain(iterables.s)))
    ELSE Raise

RECURSIVE CallFn(_, _), PipeFunction(_, _), Pipe_ror(_, _), MapCalls(_, _),
          FilterCalls(_, _), Reduce(_, _, _), or_lambda(_, _, _), call_lambda(_, _, _),
          filter_none_fn(_), p_map_fn(_), p_filter_fn(_), p_reduce_fn(_), join_fn(_),
          join_lambda(_, _, _), concat_fn(_), concat_lambda(_, _), to_set_fn(_),
          set_fold(_, _), set_inter_fn(_), set_union_fn(_)

\* self.function(*args) with self.function = maybe(function)
PipeFunction(self, args) == maybe(CallFn(self.s[1], args))

\* evaluating the expressions Pipe(f), p1 | p2 and p(*args): the new Pipe,
\* no wrapped function invoked
Pipe_init_op(function) == Ret(Pipe(function))
Pipe_or_op(self, other) == Ret(Pipe_or(self, other))
\* (mutant: __call__ invokes the wrapped function at once)
Pipe_call_op_eager(self, args) == PipeFunction(self, args)
Pipe_call_op(self, args) == Ret(Pipe_call(self, args))

\* (mutant: __ror__ passes other on without safe_iter)
Pipe_ror_raw(self, other) ==
  LET o == PipeFunction(self, <<other>>) IN [o EXCEPT !.v = flatten(o.v)]
\* Pipe.__ror__: flatten(self.function(safe_iter(other)))
Pipe_ror(self, other) ==
  LET o == PipeFunction(self, <<safe_iter(other)>>) IN [o EXCEPT !.v = flatten(o.v)]

\* the closure of __or__, lambda it: it | self | other
or_lambda(self, other, args) ==
  IF Len(args) # 1 THEN Raise
  ELSE LET o1 == Pipe_ror(self, args[1]) IN Then(o1, Pipe_ror(other, o1.v))

\* the closure of __call__, lambda x: self.function(x, *args), called
\* with xs
call_lambda(self, args, xs) ==
  IF Len(xs) # 1 THEN Raise ELSE PipeFunction(self, <<xs[1]>> \o args)

\* filter_none(iterable): a filter object
filter_none_fn(args) ==
  IF Len(args) # 1 \/ ~Iterable(args[1]) THEN Raise
  ELSE Ret(PyIter(SelectSeq(Elems(args[1]), LAMBDA x : x # PyNone)))

\* iterating map(maybe(function), xs), or map(lambda x: x | function, xs)
\* when function is a Pipe: the results in order, with the calls' effects
MapCalls(function, xs) ==
  IF xs = <<>> THEN Ret(PyIter(<<>>))
  ELSE LET o == IF function.k = "pipe"
                   THEN Pipe_ror(function, xs[1])
                   ELSE maybe(CallFn(function, <<xs[1]>>))
           rest == MapCalls(function, Tail(xs))
       IN [Then(o, rest) EXCEPT !.v = PyIter(<<o.v>> \o rest.v.s)]

\* (mutant: the mapped results are returned without | filter_none)
p_map_fn_keep_none(args) ==
  IF Len(args) # 2 \/ ~Iterable(args[1]) THEN Raise
  ELSE MapCalls(args[2], Elems(args[1]))
\* p_map(iterable, function)
p_map_fn(args) ==
  IF Len(args) # 2 \/ ~Iterable(args[1]) THEN Raise
  ELSE LET m == MapCalls(args[2], Elems(args[1])) IN
       Then(m, Pipe_ror(filter_none, m.v))

\* iterating filter(maybe(function), xs), or filter(lambda x: x | function, xs)
FilterCalls(function, xs) ==
  IF xs = <<>> THEN Ret(PyIter(<<>>))
  ELSE LET o == IF function.k = "pipe"
                   THEN Pipe_ror(function, xs[1])
                   ELSE maybe(CallFn(function, <<xs[1]>>))
           rest == FilterCalls(function, Tail(xs))
       IN [Then(o, rest) EXCEPT
             !.v = PyIter((IF Truthy(o.v) THEN <<xs[1]>> ELSE <<>>) \o rest.v.s)]

\* p_filter(iterable, function)
p_filter_fn(args) ==
  IF Len(args) # 2 \/ ~Iterable(args[1]) THEN Raise
  ELSE LET m == FilterCalls(args[2], Elems(args[1])) IN
       Then(m, Pipe_ror(filter_none, m.v))

\* functools.reduce(function, xs) continued from the accumulator acc
Reduce(function, acc, xs) ==
  IF xs = <<>> THEN Ret(acc)
  ELSE LET o == CallFn(function, <<acc, xs[1]>>) IN
       IF o.ok THEN Then(o, Reduce(function, o.v, Tail(xs))) ELSE o

\* (mutant: reduce is given the initial value [], so an empty iterable
\* folds to [])
p_reduce_fn_initial(args) ==
  IF Len(args) # 2 \/ ~Iterable(args[1]) THEN Raise
  ELSE LET r == Reduce(args[2], PyList(<<>>), Elems(args[1])) IN
       IF r.ok THEN Then(r, PyListOf(r.v)) ELSE r
\* p_reduce(iterable, function): list(functools.reduce(function, iterable))
p_reduce_fn(args) ==
  IF Len(args) # 2 \/ ~Iterable(args[1]) \/ Elems(args[1]) = <<>> THEN Raise
  ELSE LET r == Reduce(args[2], Elems(args[1])[1], Tail(Elems(args[1]))) IN
       IF r.ok THEN Then(r, PyListOf(r.v)) ELSE r

\* (mutant: iterable1 is concatenated as it came, not flattened)
join_fn_unflattened(args) ==
  IF Len(args) \notin {2, 3} THEN Raise
  ELSE LET fn == IF Len(args) = 3 THEN args[3] ELSE PyFn("always_true", <<>>)
           iterable1 == args[1]
           o2 == Pipe_ror(Pipe_call(p_filter, <<PyFn("join.lambda", <<fn, iterable1>>)>>),
                          args[2])
       IN Then(o2, PyAdd(iterable1, o2.v))
\* join(iterable1, iterable2, function=lambda it2_elem, it1: True)
join_fn(args) ==
  IF Len(args) \notin {2, 3} THEN Raise
  ELSE LET fn == IF Len(args) = 3 THEN args[3] ELSE PyFn("always_true", <<>>)
           iterable1 == flatten(args[1])
           o2 == Pipe_ror(Pipe_call(p_filter, <<PyFn("join.lambda", <<fn, iterable1>>)>>),
                          args[2])
       IN Then(o2, PyAdd(iterable1, o2.v))

\* the closure of join, lambda x: function(x, iterable1)
join_lambda(function, iterable1, args) ==
  IF Len(args) # 1 THEN Raise ELSE CallFn(function, <<args[1], iterable1>>)

\* (mutant: the inner iterables are chained without looking at the
\* first element)
concat_fn_always_chain(args) ==
  IF Len(args) \notin {1, 2} THEN Raise
  ELSE LET iterables == args[1]
           fn == IF Len(args) = 2 THEN args[2] ELSE PyNone
       IN IF ~Truthy(fn)
            THEN IF ~Iterable(iterables) THEN Raise ELSE chain_from_iterable(iterables)
            ELSE Pipe_ror(Pipe_call(p_reduce, <<PyFn("concat.lambda", <<fn>>)>>), iterables)
\* concat(iterables, function=None)
concat_fn(args) ==
  IF Len(args) \notin {1, 2} THEN Raise
  ELSE LET iterables == args[1]
           fn == IF Len(args) = 2 THEN args[2] ELSE PyNone
       IN IF ~Truthy(fn)
            THEN IF ~Truthy(iterables) THEN Ret(iterables)
                 ELSE IF iterables.k \notin {"list", "iter"} THEN Raise
                 ELSE IF iterables.s[1].k = "list"
                        THEN chain_from_iterable(iterables)
                        ELSE Ret(iterables)
            ELSE Pipe_ror(Pipe_call(p_reduce, <<PyFn("concat.lambda", <<fn>>)>>), iterables)

\* (mutant: the operands of the fold step are swapped,
\* lambda x, y: y | join(x, function))
concat_lambda_swapped(function, args) ==
  IF Len(args) # 2 THEN Raise
  ELSE Pipe_ror(Pipe_call(join, <<args[1], function>>), args[2])
\* the closure of concat, lambda x, y: x | join(y, function)
concat_lambda(function, args) ==
  IF Len(args) # 2 THEN Raise
  ELSE Pipe_ror(Pipe_call(join, <<args[2], function>>), args[1])

\* to_set(iterable): iterable | Pipe(lambda it: set(it))
to_set_fn(args) ==
  IF Len(args) # 1 THEN Raise ELSE Pipe_ror(Pipe(PyFn("set", <<>>)), args[1])

\* iterable | p_map(lambda it: set(it)) | p_reduce(step) | to_set()
set_fold(iterable, step) ==
  LET o1 == Pipe_ror(Pipe_call(p_map, <<PyFn("set", <<>>)>>), iterable)
      o2 == Then(o1, Pipe_ror(Pipe_call(p_reduce, <<PyFn(step, <<>>)>>), o1.v))
  IN Then(o2, Pipe_ror(Pipe_call(to_set, <<>>), o2.v))

\* (mutant: set_inter folds with union)
set_inter_fn_union(args) ==
  IF Len(args) # 1 THEN Raise ELSE set_fold(args[1], "union")
\* set_inter(iterable)
set_inter_fn(args) ==
  IF Len(args) # 1 THEN Raise ELSE set_fold(args[1], "intersection")

\* set_union(iterable)
set_union_fn(args) ==
  IF Len(args) # 1 THEN Raise ELSE set_fold(args[1], "union")

\* function(*args) for a function object: its outcome, an Exception not
\* yet caught
CallFn(function, args) ==
  CASE function.k = "pipe" -> Pipe_call_op(function, args)
    [] function.k # "fn" -> Raise                \* TypeError: not callable
    [] function.n \in UserFns -> UserCall(function.n, args)
    [] function.n = "Pipe.__or__" -> or_lambda(function.s[1], function.s[2], args)
    [] function.n = "Pipe.__call__" -> call_lambda(function.s[1], Tail(function.s), args)
    [] function.n = "filter_none" -> filter_none_fn(args)
    [] function.n = "p_map" -> p_map_fn(args)
    [] function.n = "p_filter" -> p_filter_fn(args)
    [] function.n = "p_reduce" -> p_reduce_fn(args)
    [] function.n = "join" -> join_fn(args)
    [] function.n = "join.lambda" -> join_lambda(function.s[1], function.s[2], args)
    [] function.n = "concat" -> concat_fn(args)
    [] function.n = "concat.lambda" -> concat_lambda(function.s[1], args)
    [] function.n = "to_set" -> to_set_fn(args)
    [] function.n = "set_inter" -> set_inter_fn(args)
    [] function.n = "set_union" -> set_union_fn(args)
    [] OTHER -> Raise

\* ---------------------------------------------------------------- bounds
\* compose / partial-application operations per session
MaxOps == 2
\* length of the input sequences
MaxLen == 2
\* number of inner iterables handed to concat
MaxOuter == 3

\* ----------------------------------------------------------------- state
\* val: the value on the left of |        pipe: the Pipe built so far
\* out: outcome of the last evaluation    last: the last operation
\* warnings, invocations: warnings emitted and user functions invoked so far
\* nOps: compose / partial-application operations done
\* forms: outcomes of the three groupings of a three-stage chain
\* conn: the SSHConnection / FTPConnection object in use
\* ioLog: the network and disk operations the last call performed, in order
\* disk: the paths written below the file system root
\* procs: the auxiliary processes created, by creation order
\* frame: the local variables of the running progress_bar wrapper
VARIABLES val, pipe, out, last, warnings, invocations, nOps, forms,
          conn, ioLog, disk, procs, frame
ioVars == <<conn, ioLog, disk, procs, frame>>
vars == <<val, pipe, out, last, warnings, invocations, nOps, forms, conn, ioLog, disk, procs, frame>>

NoConn == [cls |-> "none", connection |-> 0, made |-> 0]
NoFrame == [pc |-> "idle", args |-> <<>>, item |-> 0, p |-> 0]
\* no connection object, nothing written, no process, no wrapper running
IoIdle ==
  /\ conn = NoConn
  /\ ioLog = <<>>
  /\ disk = {}
  /\ procs = <<>>
  /\ frame = NoFrame

Op(op, f, a) == [op |-> op, f |-> f, a |-> a]
NoOut == Ret(PyNone)
NoForms == [left |-> <<>>, right |-> <<>>, chain |-> <<>>]

RECURSIVE SeqsUpTo(_, _)
SeqsUpTo(S, n) ==
  IF n = 0 THEN {<<>>}
  ELSE LET T == SeqsUpTo(S, n - 1) IN T \cup {Append(t, x) : t \in {u \in T : Len(u) = n - 1}, x \in S}

Scalars == {PyInt(0), PyInt(1), PyNone, PyStr}

\* ------------------------------------------------- the Pipe engine session
\* values piped in: scalars, lists, and non-list iterables (tuple, range)
SessionInputs ==
  Scalars \cup {PyList(s) : s \in SeqsUpTo({PyInt(1), PyStr}, MaxLen)}
          \cup {PyIter(s) : s \in SeqsUpTo({PyInt(1), PyList(<<PyInt(1)>>)}, MaxLen)}
SessionFns == {"wrap", "append2", "inc", "int", "add"}
\* extra positional arguments of a partial application
SessionArgs == {<<>>, <<PyInt(1)>>, <<PyList(<<PyInt(2)>>)>>}

Evaluated == last.op \in {"apply", "maybe"}

Init ==
  /\ val \in SessionInputs
  /\ pipe = PyNone
  /\ out = NoOut
  /\ last = Op("init", "", <<>>)
  /\ warnings = 0
  /\ invocations = 0
  /\ nOps = 0
  /\ forms = NoForms
  /\ IoIdle

\* an operation with outcome o took place
Effects(o) ==
  /\ warnings' = warnings + o.w
  /\ invocations' = invocations + Len(o.c)

\* p = Pipe(f)
NewPipe(f) ==
  /\ last.op = "init"
  /\ LET o == Pipe_init_op(PyFn(f, <<>>)) IN
       /\ pipe' = o.v
       /\ Effects(o)
  /\ last' = Op("new", f, <<>>)
  /\ UNCHANGED <<val, out, nOps, forms>>
  /\ UNCHANGED ioVars

\* p = p | Pipe(f)
ComposeRight(f) ==
  /\ pipe.k = "pipe" /\ ~Evaluated /\ nOps < MaxOps
  /\ LET o == Pipe_or_op(pipe, Pipe(PyFn(f, <<>>))) IN
       /\ pipe' = o.v
       /\ Effects(o)
  /\ last' = Op("compose", f, <<>>)
  /\ nOps' = nOps + 1
  /\ UNCHANGED <<val, out, forms>>
  /\ UNCHANGED ioVars

\* p = Pipe(f) | p
ComposeLeft(f) ==
  /\ pipe.k = "pipe" /\ ~Evaluated /\ nOps < MaxOps
  /\ LET o == Pipe_or_op(Pipe(PyFn(f, <<>>)), pipe) IN
       /\ pipe' = o.v
       /\ Effects(o)
  /\ last' = Op("compose", f, <<>>)
  /\ nOps' = nOps + 1
  /\ UNCHANGED <<val, out, forms>>
  /\ UNCHANGED ioVars

\* p = p(*a)
Partial(a) ==
  /\ pipe.k = "pipe" /\ ~Evaluated /\ nOps < MaxOps
  /\ LET o == Pipe_call_op(pipe, a) IN
       /\ pipe' = o.v
       /\ Effects(o)
  /\ last' = Op("partial", "", a)
  /\ nOps' = nOps + 1
  /\ UNCHANGED <<val, out, forms>>
  /\ UNCHANGED ioVars

\* val | p
Apply ==
  /\ pipe.k = "pipe" /\ ~Evaluated
  /\ LET o == Pipe_ror(pipe, val) IN
       /\ out' = o
       /\ Effects(o)
  /\ last' = Op("apply", "", <<>>)
  /\ UNCHANGED <<val, pipe, nOps, forms>>
  /\ UNCHANGED ioVars

\* maybe(f)(val, *a)
MaybeCall(f, a) ==
  /\ last.op = "init"
  /\ LET o == maybe(CallFn(PyFn(f, <<>>), <<val>> \o a)) IN
       /\ out' = o
       /\ Effects(o)
  /\ last' = Op("maybe", f, <<val>> \o a)
  /\ UNCHANGED <<val, pipe, nOps, forms>>
  /\ UNCHANGED ioVars

Next ==
  \/ \E f \in SessionFns : NewPipe(f)
  \/ \E f \in SessionFns : ComposeRight(f)
  \/ \E f \in SessionFns : ComposeLeft(f)
  \/ \E a \in SessionArgs : Partial(a)
  \/ Apply
  \/ \E f \in SessionFns, a \in SessionArgs : MaybeCall(f, a)

Spec == Init /\ [][Next]_vars

\* ------------------------------------------------------------ claims C1-C4
\* C1: applying Pipe(f), or Pipe(f) partially applied with the extra
\* arguments a, to val invokes f exactly once with safe_iter(val) followed
\* by a, and returns flatten(r), r being f's result, or None when f faults.
C1_Apply ==
  last.op = "apply" =>
    \A f \in SessionFns, a \in SessionArgs :
      (pipe = Pipe_call(Pipe(PyFn(f, <<>>)), a) \/ (a = <<>> /\ pipe = Pipe(PyFn(f, <<>>)))) =>
        LET args == <<safe_iter(val)>> \o a
            r == UserFn(f, args)
        IN /\ out.ok
           /\ out.c = <<[f |-> f, a |-> args]>>
           /\ out.v = flatten(IF r.ok THEN r.v ELSE PyNone)
\* a range piped into Pipe(lambda x, y: x + y)([2]): normalized, then [1, 2]
C1_Witness ==
  /\ last.op = "apply"
  /\ pipe = Pipe_call(Pipe(PyFn("add", <<>>)), <<PyList(<<PyInt(2)>>)>>)
  /\ val = PyIter(<<PyInt(1)>>)
  /\ out.v = PyList(<<PyInt(1), PyInt(2)>>)

\* C2: maybe(f)(*args) invokes f once; it returns f's result when f does
\* not fault, and None with exactly one warning when it does, never
\* propagating the fault.
C2_Maybe ==
  last.op = "maybe" =>
    LET r == UserFn(last.f, last.a) IN
      /\ out.ok
      /\ out.c = <<[f |-> last.f, a |-> last.a]>>
      /\ r.ok => out.v = r.v /\ out.w = 0
      /\ ~r.ok => out.v = PyNone /\ out.w = 1
\* maybe(int)("") absorbed the ValueError
C2_Witness ==
  /\ last = Op("maybe", "int", <<PyStr>>)
  /\ out.v = PyNone
  /\ out.w = 1

\* C4: composing and partially applying Pipes yields a Pipe and invokes no
\* wrapped function; until a value is piped in, nothing has been invoked
\* and no warning emitted.
C4_OnlyApplyEvaluates ==
  /\ [](~Evaluated => invocations = 0 /\ warnings = 0)
  /\ [][last'.op \in {"new", "compose", "partial"} =>
          /\ pipe'.k = "pipe"
          /\ invocations' = invocations
          /\ warnings' = warnings]_vars
\* a chain built by a composition and a partial application, not yet applied
C4_Witness ==
  /\ last.op = "partial"
  /\ nOps >= 2
  /\ pipe.s[1].s[1].s[1].n = "Pipe.__or__"
  /\ invocations = 0

\* ------------------------------------------- three stages, three groupings
\* pipe holds the list [p1, p2, p3]; each action evaluates one way of
\* chaining the stages on val.
AssocStages ==
  {Pipe(PyFn(f, <<>>)) : f \in SessionFns} \cup {Pipe_call(Pipe(PyFn("add", <<>>)), <<PyInt(1)>>)}

InitAssoc ==
  /\ val \in SessionInputs
  /\ pipe \in {PyList(<<p1, p2, p3>>) : p1 \in AssocStages, p2 \in AssocStages, p3 \in AssocStages}
  /\ out = NoOut
  /\ last = Op("init", "", <<>>)
  /\ warnings = 0
  /\ invocations = 0
  /\ nOps = 0
  /\ forms = NoForms
  /\ IoIdle

\* val | ((p1 | p2) | p3)
ApplyLeftGrouped ==
  /\ forms.left = <<>>
  /\ forms' = [forms EXCEPT !.left =
                 <<Pipe_ror(Pipe_or(Pipe_or(pipe.s[1], pipe.s[2]), pipe.s[3]), val)>>]
  /\ UNCHANGED <<val, pipe, out, last, warnings, invocations, nOps>>
  /\ UNCHANGED ioVars

\* val | (p1 | (p2 | p3))
ApplyRightGrouped ==
  /\ forms.right = <<>>
  /\ forms' = [forms EXCEPT !.right =
                 <<Pipe_ror(Pipe_or(pipe.s[1], Pipe_or(pipe.s[2], pipe.s[3])), val)>>]
  /\ UNCHANGED <<val, pipe, out, last, warnings, invocations, nOps>>
  /\ UNCHANGED ioVars

\* one more | of ((val | p1) | p2) | p3
ApplyNextStage ==
  /\ Len(forms.chain) < 3
  /\ LET k == Len(forms.chain)
         lhs == IF k = 0 THEN val ELSE forms.chain[k].v
     IN forms' = [forms EXCEPT !.chain = Append(@, Pipe_ror(pipe.s[k + 1], lhs))]
  /\ UNCHANGED <<val, pipe, out, last, warnings, invocations, nOps>>
  /\ UNCHANGED ioVars

NextAssoc == ApplyLeftGrouped \/ ApplyRightGrouped \/ ApplyNextStage

SpecAssoc == InitAssoc /\ [][NextAssoc]_vars

\* the user function a stage wraps
StageFn(p) == IF p.s[1].n = "Pipe.__call__" THEN p.s[1].s[1].s[1].n ELSE p.s[1].n

AllFormsRun == Len(forms.left) = 1 /\ Len(forms.right) = 1 /\ Len(forms.chain) = 3

\* C3: the two groupings of p1 | p2 | p3 applied to val and the step-by-step
\* chain return the same value and emit the same warnings, and each runs
\* the stages' functions once each in the order p1, p2, p3, also when a
\* stage faults and hands None to the next.
C3_Associative ==
  AllFormsRun =>
    LET l == forms.left[1]
        r == forms.right[1]
        ch == forms.chain
        order == [k \in 1..3 |-> StageFn(pipe.s[k])]
    IN /\ l.v = ch[3].v /\ r.v = ch[3].v
       /\ l.c = ch[1].c \o ch[2].c \o ch[3].c
       /\ r.c = l.c
       /\ [k \in 1..Len(l.c) |-> l.c[k].f] = order
       /\ l.w = ch[1].w + ch[2].w + ch[3].w
       /\ r.w = l.w
\* 1 | Pipe(x + [2]) | Pipe([[[x]]]) | Pipe(x + [2]): the first stage
\* faults, the chain goes on with None
C3_Witness ==
  /\ AllFormsRun
  /\ forms.chain[1].v = PyNone /\ forms.chain[1].w = 1
  /\ forms.left[1].v = PyList(<<PyNone, PyInt(2)>>)
  /\ forms.right[1].w = 1

\* --------------------------------------------------- derived combinators
\* A session that starts from a module-level combinator: one partial
\* application binds its arguments, then val is piped in.
InitLib(combinator, inputs) ==
  /\ val \in inputs
  /\ pipe = combinator
  /\ out = NoOut
  /\ last = Op("init", "", <<>>)
  /\ warnings = 0
  /\ invocations = 0
  /\ nOps = 0
  /\ forms = NoForms
  /\ IoIdle

\* p = combinator(*a)
Bind(a) ==
  /\ last.op = "init"
  /\ LET o == Pipe_call_op(pipe, a) IN
       /\ pipe' = o.v
       /\ Effects(o)
  /\ last' = Op("partial", "", a)
  /\ nOps' = nOps + 1
  /\ UNCHANGED <<val, out, forms>>
  /\ UNCHANGED ioVars

Applied == last.op = "apply"
IsSeq(x) == x.k \in {"list", "iter"}
\* the elements of s accepted by Test, in order
Sel(s, Test(_)) == SelectSeq(s, Test)
\* the number of elements of s accepted by Test
Count(s, Test(_)) == Len(SelectSeq(s, Test))

\* ------------------------------------------------------------------ p_map
MapElems == {PyInt(1), PyInt(2), PyNone, PyStr}
MapInputs == {PyList(s) : s \in SeqsUpTo(MapElems, MaxLen)}
               \cup {PyIter(s) : s \in SeqsUpTo(MapElems, MaxLen)}
ScalarFns == {"inc", "int", "lookup"}
MapFns == ScalarFns \cup {"wrap"}
MapFnArgs == {PyFn(f, <<>>) : f \in MapFns} \cup {Pipe(PyFn(f, <<>>)) : f \in MapFns}

InitMap == InitLib(p_map, MapInputs)
NextMap == (\E f \in MapFnArgs : Bind(<<f>>)) \/ Apply
SpecMap == InitMap /\ [][NextMap]_vars

\* the user function behind the argument of p_map
ArgFn(fv) == IF fv.k = "pipe" THEN fv.s[1].n ELSE fv.n
MapApplied(f) == Applied /\ pipe = Pipe_call(p_map, <<f>>)
Faults(f, x) == ~UserFn(f, <<x>>).ok
Result(f, x) == UserFn(f, <<x>>).v
\* the results of f on the elements of s, in order
ResultsOf(f, s) == [j \in 1..Len(s) |-> Result(f, s[j])]

\* C5 as stated, for scalar-valued f: xs | p_map(f) does not raise, warns
\* once per faulting element, and returns the results of all elements on
\* which f does not fault, in input order.
C5_Original ==
  \A fv \in MapFnArgs :
    MapApplied(fv) /\ ArgFn(fv) \in ScalarFns =>
      LET f == ArgFn(fv)
          xs == safe_iter(val).s
          good == Sel(xs, LAMBDA x : ~Faults(f, x))
      IN /\ out.ok
         /\ out.w = Count(xs, LAMBDA x : Faults(f, x))
         /\ out.v = PyList(ResultsOf(f, good))

\* C5 (amended): xs | p_map(f) does not raise and warns once per faulting
\* element; the elements on which f faults or returns None are absent, and
\* the results of all others appear in input order, the output list being
\* flattened.
C5_Map ==
  \A fv \in MapFnArgs :
    MapApplied(fv) =>
      LET f == ArgFn(fv)
          xs == safe_iter(val).s
          good == Sel(xs, LAMBDA x : ~Faults(f, x) /\ Result(f, x) # PyNone)
      IN /\ out.ok
         /\ out.w = Count(xs, LAMBDA x : Faults(f, x))
         /\ Len(out.c) = Len(xs)
         /\ out.v = flatten(PyList(ResultsOf(f, good)))
         /\ f \in ScalarFns => out.v = PyList(ResultsOf(f, good))
\* [1, ""] | p_map(int): the "" faults and is dropped with one warning
C5_Witness ==
  /\ MapApplied(PyFn("int", <<>>))
  /\ val = PyList(<<PyInt(1), PyStr>>)
  /\ out.v = PyList(<<PyInt(1)>>)
  /\ out.w = 1

\* --------------------------------------------------------------- p_reduce
ReduceElems == {PyInt(1), PyInt(2), PyList(<<PyInt(1)>>), PyList(<<PyInt(2), PyInt(1)>>)}
ReduceInputs == {PyList(s) : s \in SeqsUpTo(ReduceElems, MaxLen + 1)}
                  \cup {PyIter(s) : s \in SeqsUpTo(ReduceElems, MaxLen)}
ReduceFns == {"add", "not_in", "always_true"}

InitReduce == InitLib(p_reduce, ReduceInputs)
NextReduce == (\E f \in ReduceFns : Bind(<<PyFn(f, <<>>)>>)) \/ Apply
SpecReduce == InitReduce /\ [][NextReduce]_vars

ReduceApplied(f) == Applied /\ pipe = Pipe_call(p_reduce, <<PyFn(f, <<>>)>>)

\* C7: p_reduce(f) applied to an empty sequence returns None, raises
\* nothing, and emits exactly one warning; f is not invoked.
C7_ReduceEmpty ==
  \A f \in ReduceFns :
    ReduceApplied(f) /\ IsSeq(val) /\ val.s = <<>> =>
      /\ out.ok
      /\ out.v = PyNone
      /\ out.w = 1
      /\ warnings = 1
      /\ out.c = <<>>
\* range(0) | p_reduce(lambda x, y: x + y)
C7_Witness ==
  /\ ReduceApplied("add")
  /\ val = PyIter(<<>>)
  /\ out.v = PyNone
  /\ out.w = 1

\* f(...f(f(x1, x2), x3)..., xn) on s = <<x1, ..., xn>>: the outcome of the
\* last call, or of the first call that faults
RECURSIVE LeftFold(_, _)
LeftFold(f, s) ==
  IF Len(s) = 1 THEN Ret(s[1])
  ELSE LET acc == LeftFold(f, SubSeq(s, 1, Len(s) - 1)) IN
       IF acc.ok THEN UserFn(f, <<acc.v, s[Len(s)]>>) ELSE acc

\* C8: for a non-empty sequence xs on which the fold with f does not fault,
\* xs | p_reduce(f) returns the left fold of f over xs (x1 when n = 1),
\* whether that is a scalar or a sequence.
C8_LeftFold ==
  \A f \in ReduceFns :
    ReduceApplied(f) /\ IsSeq(val) /\ val.s # <<>> =>
      LET fold == LeftFold(f, safe_iter(val).s) IN
        fold.ok => out.v = fold.v

\* ------------------------------------------------------------------- join
JoinScalars == {PyInt(0), PyInt(1), PyNone}
\* it1: flat sequences, and sequences nested in singleton lists
JoinInputs == {PyList(s) : s \in SeqsUpTo(JoinScalars, MaxLen)}
                \cup {PyList(<<PyList(<<PyList(s)>>)>>) : s \in SeqsUpTo(JoinScalars, MaxLen)}
                \cup {PyIter(s) : s \in SeqsUpTo(JoinScalars, MaxLen)}
\* it2: sequences of scalars, some holding a nested list
JoinSeconds == {PyList(s) : s \in SeqsUpTo(JoinScalars \cup {PyList(<<PyInt(1), PyInt(0)>>)}, MaxLen)}
Predicates == {"always_true", "not_in", "self_div"}
JoinArgs == {<<it2>> : it2 \in JoinSeconds}
              \cup {<<it2, PyFn(p, <<>>)>> : it2 \in JoinSeconds, p \in Predicates}

InitJoin == InitLib(join, JoinInputs)
NextJoin == (\E a \in JoinArgs : Bind(a)) \/ Apply
SpecJoin == InitJoin /\ [][NextJoin]_vars

JoinApplied(a) == Applied /\ pipe = Pipe_call(join, a)
\* the predicate a join was given
PredOf(a) == IF Len(a) = 2 THEN a[2].n ELSE "always_true"
\* p(e, it1) is truthy
Accepts(p, e, it1) == LET r == UserFn(p, <<e, it1>>) IN r.ok /\ Truthy(r.v)
AllScalars(s) == \A j \in 1..Len(s) : ~IsSeq(s[j])

\* C6 as stated, for it2 a sequence of scalars: it1 | join(it2, p) is
\* flatten(it1) followed by the elements of it2 that p accepts, in order and
\* unchanged; with the default predicate nothing of it2 is left out.
C6_Original ==
  \A a \in JoinArgs :
    JoinApplied(a) /\ AllScalars(a[1].s) =>
      LET it1 == flatten(val)
          kept == Sel(a[1].s, LAMBDA e : Accepts(PredOf(a), e, it1))
      IN /\ out.v = PyList(it1.s \o kept)
         /\ Len(a) = 1 => Len(out.v.s) = Len(it1.s) + Len(a[1].s)

\* C6 (amended): it1 | join(it2, p) is flatten(it1) followed by the elements
\* of it2 that are not None and that p accepts, in order, that kept part
\* being flattened; elements of a scalar it2 are unchanged, and with the
\* default predicate exactly the None elements of it2 are left out.
C6_Join ==
  \A a \in JoinArgs :
    JoinApplied(a) =>
      LET it1 == flatten(val)
          kept == Sel(a[1].s, LAMBDA e : e # PyNone /\ Accepts(PredOf(a), e, it1))
      IN /\ out.ok
         /\ out.v = PyList(it1.s \o flatten(PyList(kept)).s)
         /\ AllScalars(a[1].s) => out.v = PyList(it1.s \o kept)
         /\ Len(a) = 1 /\ AllScalars(a[1].s) =>
              Len(out.v.s) = Len(it1.s) + Count(a[1].s, LAMBDA e : e # PyNone)
\* [[[0, 1]]] | join([1, 0], lambda x, it1: x not in it1) and the like: it1
\* flattened, part of it2 filtered out by the predicate
C6_Witness ==
  /\ Applied
  /\ val = PyList(<<PyList(<<PyList(<<PyInt(1)>>)>>)>>)
  /\ pipe = Pipe_call(join, <<PyList(<<PyInt(1), PyInt(0)>>), PyFn("not_in", <<>>)>>)
  /\ out.v = PyList(<<PyInt(1), PyInt(0)>>)

\* ----------------------------------------------------------------- concat
ConcatScalars == {PyInt(1), PyInt(2), PyNone}
\* the inner sequences: empty, singletons, and two with two elements
InnerSeqs == {PyList(<<>>)} \cup {PyList(<<x>>) : x \in ConcatScalars}
               \cup {PyList(<<PyInt(1), PyInt(2)>>), PyList(<<PyInt(2), PyNone>>)}
\* what the outer collection holds: flat sequences, a scalar, a nested list
ConcatElems == InnerSeqs \cup {PyInt(1), PyList(<<PyList(<<PyInt(2)>>)>>)}
ConcatInputs == {PyList(s) : s \in SeqsUpTo(ConcatElems, MaxOuter)}
ConcatArgs == {<<>>} \cup {<<PyFn(p, <<>>)>> : p \in Predicates}

InitConcat == InitLib(concat, ConcatInputs)
NextConcat == (\E a \in ConcatArgs : Bind(a)) \/ Apply
SpecConcat == InitConcat /\ [][NextConcat]_vars

\* a sequence of sequences of scalars
SeqOfFlatSeqs(x) ==
  /\ x.k = "list"
  /\ \A j \in 1..Len(x.s) : x.s[j].k = "list" /\ AllScalars(x.s[j].s)

\* the running concatenation after s[1..k], each later s[i] filtered by
\* p(e, acc) against everything accumulated before it; with dropNone the
\* None elements of the later s[i] are left out as well
RECURSIVE Running(_, _, _, _)
Running(s, k, p, dropNone) ==
  IF k = 1 THEN s[1].s
  ELSE LET acc == Running(s, k - 1, p, dropNone) IN
       acc \o Sel(s[k].s, LAMBDA e : (dropNone => e # PyNone) /\ Accepts(p, e, PyList(acc)))

ConcatApplied(p) == Applied /\ pipe = Pipe_call(concat, <<PyFn(p, <<>>)>>)

\* C9 as stated: concat(p) on [s1..sk] is the fold acc = s1,
\* acc = acc ++ [e in si : p(e, acc)], acc being the running concatenation.
C9_Original ==
  \A p \in Predicates :
    ConcatApplied(p) /\ SeqOfFlatSeqs(val) /\ val.s # <<>> =>
      out.v = PyList(Running(val.s, Len(val.s), p, FALSE))

\* C9 (amended): as stated, except that the None elements of s2..sk are
\* left out whatever p says (those of s1 stay).
C9_Concat ==
  \A p \in Predicates :
    ConcatApplied(p) /\ SeqOfFlatSeqs(val) /\ val.s # <<>> =>
      /\ out.ok
      /\ out.v = PyList(Running(val.s, Len(val.s), p, TRUE))
\* [[1], [2], [1, 2]] | concat(lambda x, it: x not in it): the third
\* sequence is filtered against [1, 2], not against [2] alone
C9_Witness ==
  /\ ConcatApplied("not_in")
  /\ val = PyList(<<PyList(<<PyInt(1)>>), PyList(<<PyInt(2)>>), PyList(<<PyInt(1), PyInt(2)>>)>>)
  /\ out.v = PyList(<<PyInt(1), PyInt(2)>>)

NoPredicate == Applied /\ pipe \in {concat, Pipe_call(concat, <<>>)}
\* the elements of the sequences among s, in order
RECURSIVE Chained(_)
Chained(s) ==
  IF s = <<>> THEN <<>>
  ELSE Chained(SubSeq(s, 1, Len(s) - 1)) \o (IF IsSeq(s[Len(s)]) THEN s[Len(s)].s ELSE <<>>)
\* nothing nested deeper than a sequence of sequences of scalars
Shallow(x) == \A j \in 1..Len(x.s) : IsSeq(x.s[j]) => AllScalars(x.s[j].s)

\* C10 as stated, for inputs nested no deeper than sequences of sequences
\* of scalars: when the first element is a sequence the result is the inner
\* sequences chained in order; every other input is returned unchanged.
C10_Original ==
  NoPredicate /\ Shallow(val) =>
    IF val.s # <<>> /\ IsSeq(val.s[1])
      THEN out.v = PyList(Chained(val.s))
      ELSE out.v = val

\* C10 (amended): when every element of the non-empty input is a sequence,
\* the result is the inner sequences chained in order, nothing dropped, then
\* flattened (the chain itself for inner sequences of scalars); when the
\* first element is a sequence and a later one is not iterable the result
\* is None with one warning; every other input comes back normalized and
\* flattened (unchanged when it is a list nested no deeper than that).
C10_Concat ==
  NoPredicate =>
    /\ out.ok
    /\ IF val.s # <<>> /\ IsSeq(val.s[1])
         THEN IF \A j \in 1..Len(val.s) : Iterable(val.s[j])
                THEN /\ out.v = flatten(PyList(Chained(val.s)))
                     /\ out.w = 0
                     /\ Shallow(val) => out.v = PyList(Chained(val.s))
                ELSE out.v = PyNone /\ out.w = 1
         ELSE /\ out.v = flatten(val)
              /\ out.w = 0
              /\ Shallow(val) => out.v = val
\* [[1, 2], [None], [2, None]] | concat: everything chained, nothing dropped
C10_Witness ==
  /\ Applied /\ pipe = concat
  /\ val = PyList(<<PyList(<<PyInt(1), PyInt(2)>>), PyList(<<PyNone>>), PyList(<<PyInt(2), PyNone>>)>>)
  /\ out.v = PyList(<<PyInt(1), PyInt(2), PyNone, PyInt(2), PyNone>>)

\* ---------------------------------------------------- set_union, set_inter
\* the inner sequences: lists and ranges of hashable scalars, some with
\* repeated elements, some sharing elements, some sharing none
SetInner == {PyList(<<>>), PyList(<<PyInt(1)>>), PyList(<<PyInt(1), PyInt(2)>>),
             PyList(<<PyInt(2), PyInt(1), PyInt(2)>>), PyIter(<<PyInt(2), PyInt(3)>>),
             PyList(<<PyNone, PyInt(1)>>), PyList(<<PyString(<<"a">>), PyInt(3), PyString(<<"a">>)>>)}
SetInputs == {PyList(s) : s \in SeqsUpTo(SetInner, MaxOuter)}
SetCombinators == {set_union, set_inter}

InitSets ==
  /\ val \in SetInputs
  /\ pipe \in SetCombinators
  /\ out = NoOut
  /\ last = Op("init", "", <<>>)
  /\ warnings = 0
  /\ invocations = 0
  /\ nOps = 0
  /\ forms = NoForms
  /\ IoIdle
NextSets == Bind(<<>>) \/ Apply
SpecSets == InitSets /\ [][NextSets]_vars

\* the elements of x, as a set
ElemSet(x) == {x.s[j] : j \in 1..Len(x.s)}
\* x is a set value holding exactly the elements S, once each
IsSetOf(x, S) == x.k = "set" /\ ElemSet(x) = S /\ Len(x.s) = Cardinality(S)
SetApplied(combinator) ==
  Applied /\ pipe \in {combinator, Pipe_call(combinator, <<>>)}

\* C11: applied to a non-empty sequence of sequences of hashable scalars,
\* set_union returns the set of the elements that occur in some inner
\* sequence and set_inter the set of those that occur in every one, also
\* for a single inner sequence and for an empty intersection; no warning
\* is emitted.
C11_SetFold ==
  Applied /\ val.s # <<>> =>
    LET inner == {ElemSet(val.s[j]) : j \in 1..Len(val.s)} IN
      /\ out.ok /\ out.w = 0
      /\ SetApplied(set_union) => IsSetOf(out.v, UNION inner)
      /\ SetApplied(set_inter) =>
           IsSetOf(out.v, {e \in UNION inner : \A S \in inner : e \in S})
\* [[1, 2], range(2, 4), [None, 1]] | set_inter(): nothing is common to all
C11_Witness ==
  /\ SetApplied(set_inter)
  /\ val = PyList(<<PyList(<<PyInt(1), PyInt(2)>>), PyIter(<<PyInt(2), PyInt(3)>>),
                    PyList(<<PyNone, PyInt(1)>>)>>)
  /\ out.v = PySet(<<>>)

\* ------------------------------------------------------ safe_iter, flatten
\* what the normalized values are built from: scalars, nested and empty
\* lists, a tuple, a set of scalars and a set holding a tuple
NormAtoms == {PyInt(1), PyNone, PyStr, PyList(<<>>), PyList(<<PyInt(1)>>),
              PyList(<<PyList(<<PyInt(1), PyInt(2)>>)>>), PyIter(<<PyInt(1), PyInt(2)>>),
              PySet(<<PyInt(1)>>), PySet(<<PyIter(<<PyInt(1)>>)>>)}
\* the sets: of scalars, of tuples, of both, of nested tuples, of a frozenset
NormSets == {PySet(SetOf(s)) : s \in SeqsUpTo({PyInt(1), PyInt(2), PyNone, PyStr,
                                               PyIter(<<>>), PyIter(<<PyInt(1), PyInt(2)>>),
                                               PyIter(<<PyIter(<<PyInt(2)>>)>>),
                                               PySet(<<PyInt(1)>>)}, MaxLen)}
NormInputs == {PyList(s) : s \in SeqsUpTo(NormAtoms, MaxLen)}
                \cup {PyIter(s) : s \in SeqsUpTo(NormAtoms, MaxLen)}
                \cup NormSets
\* operations applied in a row to one value
MaxSteps == 3

\* out holds the current value, last.a the operations applied so far
InitNorm ==
  /\ val \in NormInputs
  /\ pipe = PyNone
  /\ out = Ret(val)
  /\ last = Op("init", "", <<>>)
  /\ warnings = 0
  /\ invocations = 0
  /\ nOps = 0
  /\ forms = NoForms
  /\ IoIdle

NormStep(op, v) ==
  /\ nOps < MaxSteps
  /\ out' = Ret(v)
  /\ last' = Op(op, "", Append(last.a, op))
  /\ nOps' = nOps + 1
  /\ UNCHANGED <<val, pipe, warnings, invocations, forms>>
  /\ UNCHANGED ioVars

\* x = safe_iter(x)
SafeIter == NormStep("safe_iter", safe_iter(out.v))
\* x = flatten(x)
Flatten == NormStep("flatten", flatten(out.v))
\* x = [x]
Wrap == NormStep("wrap", PyList(<<out.v>>))

NextNorm == SafeIter \/ Flatten \/ Wrap
SpecNorm == InitNorm /\ [][NextNorm]_vars

\* C12: for a sequence xs, wrapping in singleton lists and flattening, in
\* any order and any number of times, always ends in flatten(xs) when the
\* last step is a flatten; in particular flatten([xs]) = flatten(xs) and
\* flatten(flatten(xs)) = flatten(xs).
C12_FlattenIdempotent ==
  IsSeq(val) =>
    /\ last.op = "flatten" => out.v = flatten(val)
    /\ flatten(PyList(<<val>>)) = flatten(val)
    /\ flatten(flatten(val)) = flatten(val)
\* [[[1, 2]], (1, 2)] flattened, wrapped, flattened again: [[1, 2], [1, 2]]
C12_Witness ==
  /\ val = PyList(<<PyList(<<PyList(<<PyInt(1), PyInt(2)>>)>>), PyIter(<<PyInt(1), PyInt(2)>>)>>)
  /\ last.a = <<"flatten", "wrap", "flatten">>
  /\ out.v = PyList(<<PyList(<<PyInt(1), PyInt(2)>>), PyList(<<PyInt(1), PyInt(2)>>)>>)

\* the normalized elements of the set x, in iteration order
NormElems(x) == [j \in 1..Len(x.s) |-> safe_iter(x.s[j])]
AllHashable(s) == \A j \in 1..Len(s) : Hashable(s[j])
SafeIterOfSet == val.k = "set" /\ last.a = <<"safe_iter">>

\* C13 as stated: safe_iter on a set returns the set of the normalized
\* elements when those are hashable, and the set with its elements
\* un-normalized when they are not.
C13_Original ==
  SafeIterOfSet =>
    IF AllHashable(NormElems(val))
      THEN IsSetOf(out.v, ElemSet(PyList(NormElems(val))))
      ELSE out.v = val

\* C13 (amended): safe_iter on a set never faults; it returns the set of the
\* normalized elements when those are all hashable (the set itself, for a
\* set of scalars), and otherwise a list, not a set, holding the
\* recursively normalized elements of the set, one per element.
C13_SafeIterSet ==
  SafeIterOfSet =>
    /\ out.ok /\ out.w = 0
    /\ IF AllHashable(NormElems(val))
         THEN IsSetOf(out.v, ElemSet(PyList(NormElems(val)))) /\ out.v = val
         ELSE /\ out.v.k = "list"
              /\ out.v.s = NormElems(val)
              /\ Len(out.v.s) = Len(val.s)
\* safe_iter({1, (1, 2)}) is the list [1, [1, 2]]
C13_Witness ==
  /\ SafeIterOfSet
  /\ val = PySet(<<PyInt(1), PyIter(<<PyInt(1), PyInt(2)>>)>>)
  /\ out.v = PyList(<<PyInt(1), PyList(<<PyInt(1), PyInt(2)>>)>>)

\* ----------------------------------------------------------------- os.path
\* A path is the sequence of its characters.
\* p.split(sep)
RECURSIVE Split(_, _)
Split(p, sep) ==
  IF p = <<>> THEN << <<>> >>
  ELSE LET r == Split(Tail(p), sep) IN
       IF p[1] = sep THEN << <<>> >> \o r ELSE << <<p[1]>> \o r[1] >> \o Tail(r)
\* sep.join(comps)
RECURSIVE JoinComps(_, _)
JoinComps(comps, sep) ==
  IF comps = <<>> THEN <<>>
  ELSE IF Len(comps) = 1 THEN comps[1]
  ELSE comps[1] \o <<sep>> \o JoinComps(Tail(comps), sep)
Dot == <<".">>
DotDot == <<".", ".">>
isabs(p) == p # <<>> /\ p[1] = "/"
\* os.path.join(a, b)
os_path_join(a, b) ==
  IF isabs(b) THEN b
  ELSE IF a = <<>> \/ a[Len(a)] = "/" THEN a \o b
  ELSE a \o <<"/">> \o b
\* the component loop of os.path.normpath
RECURSIVE NormComps(_, _, _)
NormComps(comps, acc, rooted) ==
  IF comps = <<>> THEN acc
  ELSE LET comp == comps[1] IN
       IF comp \in {<<>>, Dot} THEN NormComps(Tail(comps), acc, rooted)
       ELSE IF comp # DotDot \/ (~rooted /\ acc = <<>>) \/ (acc # <<>> /\ acc[Len(acc)] = DotDot)
         THEN NormComps(Tail(comps), Append(acc, comp), rooted)
       ELSE IF acc # <<>> THEN NormComps(Tail(comps), SubSeq(acc, 1, Len(acc) - 1), rooted)
       ELSE NormComps(Tail(comps), acc, rooted)
\* os.path.normpath(p), for paths with at most one leading slash
normpath(p) ==
  LET path == JoinComps(NormComps(Split(p, "/"), <<>>, isabs(p)), "/") IN
    IF isabs(p) THEN <<"/">> \o path
    ELSE IF path = <<>> THEN Dot ELSE path
\* the working directory
Cwd == <<"/">>
\* os.path.abspath(p)
abspath(p) == normpath(IF isabs(p) THEN p ELSE os_path_join(Cwd, p))
\* os.path.commonprefix([a, b]): the longest common leading run of
\* characters
RECURSIVE commonprefix(_, _)
commonprefix(a, b) ==
  IF a = <<>> \/ b = <<>> \/ a[1] # b[1] THEN <<>>
  ELSE <<a[1]>> \o commonprefix(Tail(a), Tail(b))
\* os.path.commonpath([a, b]) for absolute normalized paths: the longest
\* common leading run of components
RECURSIVE CommonComps(_, _)
CommonComps(a, b) ==
  IF a = <<>> \/ b = <<>> \/ a[1] # b[1] THEN <<>>
  ELSE <<a[1]>> \o CommonComps(Tail(a), Tail(b))
commonpath(a, b) ==
  <<"/">> \o JoinComps(CommonComps(NormComps(Split(a, "/"), <<>>, TRUE),
                                   NormComps(Split(b, "/"), <<>>, TRUE)), "/")

\* ------------------------------------------------------- uncompress_utils
\* an Exception carrying the message text, raised
RaiseExc(text) == [ok |-> FALSE, v |-> V("exc", 0, text, <<>>), w |-> 0, c |-> <<>>]

\* tempfile.mkdtemp(): a fresh directory, /t/d
TempDir == <<"/", "t", "/", "d">>

\* untar.is_within_directory(directory, target)
is_within_directory(directory, target) ==
  LET abs_directory == abspath(directory)
      abs_target == abspath(target)
  IN commonprefix(abs_directory, abs_target) = abs_directory

\* s without repeated entries, first occurrences kept (the keys of a dict)
RECURSIVE DictKeys(_)
DictKeys(s) ==
  IF s = <<>> THEN <<>>
  ELSE LET rest == DictKeys(SubSeq(s, 1, Len(s) - 1)) IN
       IF \E j \in 1..Len(rest) : rest[j] = s[Len(s)] THEN rest ELSE Append(rest, s[Len(s)])
\* the keys of contents: os.path.join(temp_dir, name) for each member
contents_keys(temp_dir, names) ==
  DictKeys([j \in 1..Len(names) |-> os_path_join(temp_dir, names[j])])
\* list(contents.keys()) as a Python value
FilenameList(keys) == PyList([j \in 1..Len(keys) |-> PyString(keys[j])])

\* name.lstrip("/")
RECURSIVE lstrip_slash(_)
lstrip_slash(name) == IF isabs(name) THEN lstrip_slash(Tail(name)) ELSE name

\* The extraction filters tarfile applies by default: "fully_trusted" up to
\* Python 3.13, "data" from Python 3.14 on.
ExtractionFilters == {"fully_trusted", "data"}

\* tar.extractall(path, members): the regular files of names written one
\* after the other, each where the operating system resolves
\* os.path.join(path, name); the "data" filter raises at the first member it
\* finds outside path, the members before it staying written
RECURSIVE tar_extractall(_, _, _, _)
tar_extractall(path, names, filter, written) ==
  IF names = <<>> THEN [ok |-> TRUE, written |-> written]
  ELSE LET name == IF filter = "data" THEN lstrip_slash(names[1]) ELSE names[1]
           target == abspath(os_path_join(path, name))
       IN IF filter = "data" /\ commonpath(target, abspath(path)) # abspath(path)
            THEN [ok |-> FALSE, written |-> written]
            ELSE tar_extractall(path, Tail(names), filter, written \cup {target})

\* untar(filename) for a tar file whose members are named names: the
\* outcome and the paths written
untar(names, filter) ==
  LET temp_dir == TempDir
      keys == contents_keys(temp_dir, names)
  IN IF \E j \in 1..Len(names) :
          ~is_within_directory(temp_dir, os_path_join(temp_dir, names[j]))
       THEN [o |-> RaiseExc("Attempted Path Traversal in Tar File"), written |-> {}]
       ELSE LET x == tar_extractall(temp_dir,
                                    [j \in 1..Len(keys) |-> names[CHOOSE h \in 1..Len(names) :
                                        os_path_join(temp_dir, names[h]) = keys[j]]],
                                    filter, {})
            IN IF x.ok THEN [o |-> Ret(FilenameList(keys)), written |-> x.written]
               ELSE [o |-> RaiseExc("OutsideDestinationError"), written |-> x.written]

\* the name ZipFile._extract_member extracts a member under: the empty, "."
\* and ".." components of its name removed
zip_arcname(name) ==
  JoinComps(SelectSeq(Split(name, "/"), LAMBDA comp : comp \notin {<<>>, Dot, DotDot}), "/")

\* unzip(filename) for a zip file whose members are named names, without
\* password: the outcome and the paths written
unzip(names) ==
  LET temp_dir == TempDir
      keys == contents_keys(temp_dir, names)
  IN [o |-> Ret(FilenameList(keys)),
      written |-> {normpath(os_path_join(temp_dir, zip_arcname(names[j]))) : j \in 1..Len(names)}]

\* ------------------------------------------------------ extracting archives
\* members of one archive
MaxMembers == 2
\* member names: f, s/f, ../f, ../de/f (a sibling directory whose name
\* starts with the destination's), ../d/f (out and back in), /e/f
MemberNames == {<<"f">>, <<"s", "/", "f">>, <<".", ".", "/", "f">>,
                <<".", ".", "/", "d", "e", "/", "f">>,
                <<".", ".", "/", "d", "/", "f">>, <<"/", "e", "/", "f">>}
Archives == SeqsUpTo(MemberNames, MaxMembers)

InitArchive ==
  /\ val = PyNone
  /\ pipe = PyNone
  /\ out = NoOut
  /\ last = Op("init", "", <<>>)
  /\ warnings = 0
  /\ invocations = 0
  /\ nOps = 0
  /\ forms = NoForms
  /\ IoIdle

\* uncompress_utils.untar(filename), the file holding the members archive
Untar(archive, filter) ==
  /\ last.op = "init"
  /\ LET r == untar(archive, filter) IN
       /\ out' = r.o
       /\ disk' = disk \cup r.written
  /\ last' = Op("untar", filter, archive)
  /\ UNCHANGED <<val, pipe, warnings, invocations, nOps, forms, conn, ioLog, procs, frame>>

\* uncompress_utils.unzip(filename), the file holding the members archive
Unzip(archive) ==
  /\ last.op = "init"
  /\ LET r == unzip(archive) IN
       /\ out' = r.o
       /\ disk' = disk \cup r.written
  /\ last' = Op("unzip", "", archive)
  /\ UNCHANGED <<val, pipe, warnings, invocations, nOps, forms, conn, ioLog, procs, frame>>

NextArchive ==
  \/ \E archive \in Archives, filter \in ExtractionFilters : Untar(archive, filter)
  \/ \E archive \in Archives : Unzip(archive)
SpecArchive == InitArchive /\ [][NextArchive]_vars

\* the member's resolved path lies outside the destination directory,
\* judged on path components
Outside(name) ==
  LET resolved == abspath(os_path_join(TempDir, name)) IN
    commonpath(resolved, TempDir) # TempDir
HasOutsideMember(archive) == \E j \in 1..Len(archive) : Outside(archive[j])

\* C16: untar raises, with nothing written to disk, for every archive that
\* holds a member whose resolved path lies outside the destination
\* directory, a sibling directory whose name starts with the destination's
\* name counting as outside.
C16_UntarRejects ==
  last.op = "untar" /\ HasOutsideMember(last.a) => ~out.ok /\ disk = {}

\* C17: unzip raises for every archive that holds a member whose resolved
\* path lies outside the destination directory.
C17_UnzipRejects ==
  last.op = "unzip" /\ HasOutsideMember(last.a) => ~out.ok

\* ------------------------------------------------------- connection_utils
\* A connection object is [cls, connection, made]: connection is 0 for None
\* and otherwise identifies the client object stored, made counts the
\* client objects created so far.  The network is [script, rest]: the
\* answers to the coming network operations, then rest for ever; "ok" lets
\* the operation succeed, "temp" is ftplib.error_temp or EOFError, "fail"
\* any other Exception.
Events == {"ok", "temp", "fail"}
NextEvent(env) == IF env.script = <<>> THEN env.rest ELSE env.script[1]
Consume(env) == IF env.script = <<>> THEN env ELSE [env EXCEPT !.script = Tail(@)]
\* what a call did: its outcome, the object and the network afterwards, the
\* network operations performed and the files written
IO(o, self, env, log, written) ==
  [o |-> o, self |-> self, env |-> env, log |-> log, written |-> written]
NetOp(op, ev) == [op |-> op, ev |-> ev]
\* the client object (SSHClient, FTP) number id
Client(cls, id) == V("client", id, cls, <<>>)

\* SSHConnection.__init__ / FTPConnection.__init__
Connection_init(cls) == [cls |-> cls, connection |-> 0, made |-> 0]

ConnectError(cls) ==
  IF cls = "SSH" THEN "Could not connect to %s with SSH."
  ELSE "Could not connect to FTP server %s."

\* SSHConnection.connect / FTPConnection.connect
Connection_connect(self, env) ==
  LET ev == NextEvent(env) IN
    IF ev = "ok"
      THEN IO(Ret(Client(self.cls, self.made + 1)),
              [self EXCEPT !.connection = self.made + 1, !.made = self.made + 1],
              Consume(env), <<NetOp("connect", ev)>>, {})
      ELSE IO(RaiseExc(ConnectError(self.cls)), self, Consume(env),
              <<NetOp("connect", ev)>>, {})

\* (mutant: every use connects anew)
connection_of_eager(self, env) == Connection_connect(self, env)
\* self.connect() if not self.connection else self.connection
connection_of(self, env) ==
  IF self.connection = 0 THEN Connection_connect(self, env)
  ELSE IO(Ret(Client(self.cls, self.connection)), self, env, <<>>, {})

\* helper_utils.write_temp_file(name, contents): the name of the file made
write_temp_file(name) ==
  LET parts == Split(name, "/") IN
    os_path_join(<<"/", "t", "m", "p", "/">>, parts[Len(parts)])

\* the listing a server returns
Listing == PyList(<<PyString(<<"a">>), PyString(<<"f">>)>>)

\* SSHConnection.download(filename)
SSHConnection_download(self, env, filename) ==
  LET c == connection_of(self, env) IN
    IF ~c.o.ok THEN c
    ELSE LET ev == NextEvent(c.env)
             log == c.log \o <<NetOp("exec_command", ev)>>
         IN IF ev # "ok" THEN IO(RaiseExc("SSHException"), c.self, Consume(c.env), log, {})
            ELSE IF filename.k # "str"
              THEN IO(RaiseExc("AttributeError"), c.self, Consume(c.env), log, {})
            ELSE IO(Ret(PyString(write_temp_file(filename.s))), c.self, Consume(c.env), log,
                    {write_temp_file(filename.s)})

\* SSHConnection.contents(path)
SSHConnection_contents(self, env, path) ==
  LET c == connection_of(self, env) IN
    IF ~c.o.ok THEN c
    ELSE LET ev == NextEvent(c.env)
             log == c.log \o <<NetOp("exec_command", ev)>>
         IN IF ev # "ok" THEN IO(RaiseExc("SSHException"), c.self, Consume(c.env), log, {})
            ELSE IO(Ret(Listing), c.self, Consume(c.env), log, {})

\* nested calls of FTPConnection.download the interpreter allows
\* (sys.getrecursionlimit())
MaxDepth == 3

\* FTPConnection.download(filename), depth calls deep
RECURSIVE FTPConnection_download(_, _, _, _)
FTPConnection_download(self, env, filename, depth) ==
  IF depth > MaxDepth THEN IO(RaiseExc("RecursionError"), self, env, <<>>, {})
  ELSE
  LET c == connection_of(self, env) IN
    IF ~c.o.ok THEN c
    ELSE IF filename.k # "str" THEN IO(RaiseExc("AttributeError"), c.self, c.env, c.log, {})
    ELSE
    LET temp_filename == write_temp_file(filename.s)
        ev == NextEvent(c.env)
        log == c.log \o <<NetOp("retrbinary", ev)>>
    IN IF ev = "ok"
         THEN IO(Ret(PyString(temp_filename)), c.self, Consume(c.env), log, {temp_filename})
       ELSE IF ev = "fail"
         THEN IO(RaiseExc("error_perm"), c.self, Consume(c.env), log, {temp_filename})
       ELSE \* except (error_temp, EOFError): self.connect(); self.download(filename)
         LET r == Connection_connect(c.self, Consume(c.env)) IN
           IF ~r.o.ok THEN IO(r.o, r.self, r.env, log \o r.log, {temp_filename})
           ELSE LET again == FTPConnection_download(r.self, r.env, filename, depth + 1) IN
                  IO(IF again.o.ok THEN Ret(PyString(temp_filename)) ELSE again.o,
                     again.self, again.env, log \o r.log \o again.log, {temp_filename})

\* FTPConnection.contents(path)
FTPConnection_contents(self, env, path) ==
  LET c == connection_of(self, env) IN
    IF ~c.o.ok THEN c
    ELSE IF path.k # "str" THEN IO(RaiseExc("TypeError"), c.self, c.env, c.log, {})
    ELSE LET ev == NextEvent(c.env)
             log == c.log \o <<NetOp("nlst", ev)>>
         IN IF ev # "ok" THEN IO(RaiseExc("error_perm"), c.self, Consume(c.env), log, {})
            ELSE IO(Ret(Listing), c.self, Consume(c.env), log, {})

\* connection.download(filename), connection.contents(path), connection()
Connection_download(self, env, filename) ==
  IF self.cls = "SSH" THEN SSHConnection_download(self, env, filename)
  ELSE FTPConnection_download(self, env, filename, 1)
Connection_contents(self, env, path) ==
  IF self.cls = "SSH" THEN SSHConnection_contents(self, env, path)
  ELSE FTPConnection_contents(self, env, path)
Connection_call(self, env) == connection_of(self, env)

\* ------------------------------------------------- using one connection
\* network answers scripted per call
MaxEvents == 3
\* method calls on the connection object
MaxCalls == 3
Envs == {[script |-> s, rest |-> r] : s \in SeqsUpTo(Events, MaxEvents), r \in {"ok", "temp"}}
Filenames == {PyString(<<"f">>), PyString(<<"a", "/", "f">>)}

InitConn == InitArchive

\* connection = SSHConnection(...) / FTPConnection(...)
NewConnection(cls) ==
  /\ last.op = "init"
  /\ conn' = Connection_init(cls)
  /\ last' = Op("new", cls, <<>>)
  /\ UNCHANGED <<val, pipe, out, warnings, invocations, nOps, forms, ioLog, disk, procs, frame>>

\* a method of the connection object was called with the arguments a and
\* did r
Method(op, r, a) ==
  /\ conn.cls # "none" /\ nOps < MaxCalls
  /\ conn' = r.self
  /\ out' = r.o
  /\ ioLog' = r.log
  /\ disk' = disk \cup r.written
  /\ last' = Op(op, conn.cls, a)
  /\ nOps' = nOps + 1
  /\ UNCHANGED <<val, pipe, warnings, invocations, forms, procs, frame>>

\* connection.download(filename)
Download(env, filename) ==
  Method("download", Connection_download(conn, env, filename), <<filename>>)
\* connection.contents(path)
Contents(env, path) ==
  Method("contents", Connection_contents(conn, env, path), <<path>>)
\* connection()
Call(env) == Method("call", Connection_call(conn, env), <<>>)

NextConn ==
  \/ \E cls \in {"SSH", "FTP"} : NewConnection(cls)
  \/ \E env \in Envs, filename \in Filenames : Download(env, filename)
  \/ \E env \in Envs, path \in Filenames : Contents(env, path)
  \/ \E env \in Envs : Call(env)
SpecConn == InitConn /\ [][NextConn]_vars

\* the entries of log for the network operation op
OpsIn(log, op) == SelectSeq(log, LAMBDA e : e.op = op)
Transfers(log) == SelectSeq(log, LAMBDA e : e.op # "connect")
\* the connects made after the first transfer attempt
RECURSIVE Reconnects(_)
Reconnects(log) ==
  IF log = <<>> THEN <<>>
  ELSE IF log[1].op = "connect" THEN Reconnects(Tail(log))
  ELSE OpsIn(Tail(log), "connect")

\* C15: one call of FTPConnection.download reconnects at most once and
\* attempts the transfer at most twice.
C15_OneRetry ==
  last.op = "download" /\ conn.cls = "FTP" =>
    /\ Len(Reconnects(ioLog)) <= 1
    /\ Len(OpsIn(ioLog, "retrbinary")) <= 2

UsesConnection == {"download", "contents", "call"}
\* C18: constructing a connection object connects nothing; a use of an
\* unconnected object starts with a connect attempt, and when that attempt
\* fails the stored connection stays unset and the "Could not connect"
\* fault is raised; a use of a connected object that meets no transfer
\* fault makes no connect attempt and leaves the same client object stored.
C18_LazyReuse ==
  /\ [](last.op = "new" => conn.connection = 0 /\ conn.made = 0 /\ ioLog = <<>>)
  /\ [][last'.op \in UsesConnection =>
          /\ conn.connection = 0 =>
               /\ ioLog' # <<>> /\ ioLog'[1].op = "connect"
               /\ ioLog'[1].ev = "ok" => conn'.connection # 0
               /\ ioLog'[1].ev # "ok" =>
                    /\ conn'.connection = 0
                    /\ ~out'.ok
                    /\ out'.v = V("exc", 0, ConnectError(conn.cls), <<>>)
                    /\ Len(ioLog') = 1
          /\ (conn.connection # 0 /\ \A j \in 1..Len(ioLog') : ioLog'[j].ev = "ok") =>
               /\ OpsIn(ioLog', "connect") = <<>>
               /\ conn'.connection = conn.connection
               /\ conn'.made = conn.made
               /\ out'.ok
               /\ last'.op = "call" => out'.v = Client(conn.cls, conn.connection)]_vars
\* the third use of an object that connected once: still the first client
C18_Witness ==
  /\ nOps = 3
  /\ last.op = "contents"
  /\ conn.connection = 1 /\ conn.made = 1
  /\ ioLog = <<NetOp("nlst", "ok")>>
  /\ out.v = Listing

\* --------------------------------------------------------- download_utils
\* value | stage(*args) for a stage made by the @Pipe decorator, o being
\* the outcome of the decorated function: Pipe.__init__ wraps the function
\* in maybe, Pipe.__call__ wraps the call of that in a new Pipe, and
\* Pipe.__ror__ flattens what comes back
StageOutcome(o) == LET m == maybe(maybe(o)) IN [m EXCEPT !.v = flatten(m.v)]

\* helper_utils.url_download(url)
url_download(self, env, url) ==
  LET ev == NextEvent(env)
      log == <<NetOp("urlopen", ev)>>
  IN IF url.k # "str" THEN IO(RaiseExc("AttributeError"), self, env, <<>>, {})
     ELSE IF ev # "ok" THEN IO(RaiseExc("URLError"), self, Consume(env), log, {})
     ELSE IO(Ret(PyString(write_temp_file(url.s))), self, Consume(env), log,
             {write_temp_file(url.s)})

\* download_utils.download(filename, connection), connection being the
\* object self or None
download_fn(filename, self, env) ==
  IF self.cls \in {"FTP", "SSH"} THEN Connection_download(self, env, filename)
  ELSE url_download(self, env, filename)

\* download_utils.contents(filename, connection)
contents_fn(filename, self, env) ==
  IF self.cls \in {"FTP", "SSH"} THEN Connection_contents(self, env, filename)
  ELSE IO(RaiseExc("Connection must be an instance of 'FTPConnection' or 'SSHConnection'. %s was given."),
          self, env, <<>>, {})

\* download_utils.untar(filename), the file holding archive when it is a
\* tar file (isTar)
untar_fn(filename, isTar, archive, filter) ==
  IF filename.k # "str" THEN [o |-> RaiseExc("TypeError"), written |-> {}]
  ELSE IF ~isTar THEN [o |-> RaiseExc("ReadError"), written |-> {}]
  ELSE untar(archive, filter)

\* --------------------------------------------------- the pipeline stages
\* val | stage | stage ...: out holds the value the last stage handed on
InitStages ==
  /\ val \in Filenames
  /\ pipe = PyNone
  /\ out = NoOut
  /\ last = Op("init", "", <<>>)
  /\ warnings = 0
  /\ invocations = 0
  /\ nOps = 0
  /\ forms = NoForms
  /\ conn \in {NoConn, Connection_init("SSH"), Connection_init("FTP")}
  /\ ioLog = <<>>
  /\ disk = {}
  /\ procs = <<>>
  /\ frame = NoFrame

\* the value on the left of the next |
Piped == IF nOps = 0 THEN val ELSE out.v
\* what the decorated function did, its Exception logged when it raised one
StageLog(log, o) == log \o (IF o.ok THEN <<>> ELSE <<NetOp("raise", o.v.n)>>)

\* a stage whose decorated function did the outcome o
Stage(op, o, self, log, written) ==
  /\ nOps < MaxOps
  /\ out' = StageOutcome(o)
  /\ warnings' = warnings + StageOutcome(o).w
  /\ conn' = self
  /\ ioLog' = StageLog(log, o)
  /\ disk' = disk \cup written
  /\ last' = Op(op, "", <<Piped>>)
  /\ nOps' = nOps + 1
  /\ UNCHANGED <<val, pipe, invocations, forms, procs, frame>>

\* ... | download(connection)
StageDownload(env) ==
  LET r == download_fn(safe_iter(Piped), conn, env) IN
    Stage("download", r.o, r.self, r.log, r.written)
\* ... | contents(connection)
StageContents(env) ==
  LET r == contents_fn(safe_iter(Piped), conn, env) IN
    Stage("contents", r.o, r.self, r.log, r.written)
\* ... | untar
StageUntar(isTar, archive, filter) ==
  LET r == untar_fn(safe_iter(Piped), isTar, archive, filter) IN
    Stage("untar", r.o, conn, <<>>, r.written)

NextStages ==
  \/ \E env \in Envs : StageDownload(env)
  \/ \E env \in Envs : StageContents(env)
  \/ \E isTar \in BOOLEAN, archive \in Archives, filter \in ExtractionFilters :
       StageUntar(isTar, archive, filter)
SpecStages == InitStages /\ [][NextStages]_vars

\* the faults that are to halt a chain
HaltingFaults == {ConnectError("SSH"), ConnectError("FTP"),
                  "Attempted Path Traversal in Tar File"}

\* C14: when a download or contents stage fails to establish its
\* connection, or an untar stage finds a path traversal, the stage hands
\* the fault to the caller instead of a value for the next stage.
C14_FaultsPropagate ==
  (\E j \in 1..Len(ioLog) : ioLog[j].op = "raise" /\ ioLog[j].ev \in HaltingFaults)
    => ~out.ok

\* ------------------------------------------------ helper_utils.progress_bar
\* The decorated function func runs one step at a time; frame holds its
\* locals: pc the next statement, args the argument list built so far (tup
\* while it is still the tuple func was called with), item, and p the
\* number of the Process object p refers to.  procs[i] is the state of the
\* i-th Process created: "initial", "alive" or "terminated".  The target
\* draw_progress_bar loops for ever, so a started process stays alive until
\* it is terminated.  val is the iterator, nOps counts the items taken.
\* The timing locals (deltas, before, after, eta) only feed the drawing.
MaxItems == 3
\* items as enumerate yields them, and plain ones
Items == {PyIter(<<PyInt(0), PyInt(7)>>), PyInt(0)}
Iterators == {PyIter(s) : s \in SeqsUpTo(Items, MaxItems)}
CallArgs == {<<>>, <<PyInt(5)>>}

InitProgress ==
  /\ val \in Iterators
  /\ pipe = PyNone
  /\ out = NoOut
  /\ last = Op("init", "", <<>>)
  /\ warnings = 0
  /\ invocations = 0
  /\ nOps = 0
  /\ forms = NoForms
  /\ IoIdle

Alive == {i \in 1..Len(procs) : procs[i] = "alive"}
Goto(pc) == frame' = [frame EXCEPT !.pc = pc]
\* the Exception leaves func
Propagate ==
  /\ frame' = [frame EXCEPT !.pc = "done"]
  /\ out' = Raise

\* func(*a): the decorated function is called
CallDecorated(a) ==
  /\ frame.pc = "idle"
  /\ frame' = [pc |-> "loop", args |-> a, tup |-> TRUE, item |-> PyNone, p |-> 0]
  /\ last' = Op("func", "", a)
  /\ UNCHANGED <<val, pipe, out, warnings, invocations, nOps, forms, conn, ioLog, disk, procs>>

\* for item in iterator: the argument list is extended and the Process for
\* this item created; after the last item the "Ready!" Process is created
NextItem ==
  /\ frame.pc = "loop"
  /\ IF nOps = Len(val.s)
       THEN /\ procs' = Append(procs, "initial")
            /\ frame' = [frame EXCEPT !.pc = "ready_start", !.p = Len(procs) + 1]
            /\ UNCHANGED <<out, nOps>>
       ELSE LET item == val.s[nOps + 1] IN
            /\ nOps' = nOps + 1
            /\ IF item.k = "iter"
                 THEN \* args = list(item) + list(args); item = item[0]
                      /\ procs' = Append(procs, "initial")
                      /\ frame' = [frame EXCEPT !.pc = "start", !.args = item.s \o frame.args,
                                                !.tup = FALSE, !.item = item.s[1],
                                                !.p = Len(procs) + 1]
                      /\ UNCHANGED out
                 ELSE IF frame.tup
                   THEN \* args = [item] + args: TypeError, list + tuple
                        /\ Propagate
                        /\ UNCHANGED procs
                   ELSE /\ procs' = Append(procs, "initial")
                        /\ frame' = [frame EXCEPT !.pc = "start", !.args = <<item>> \o frame.args,
                                                  !.item = item, !.p = Len(procs) + 1]
                        /\ UNCHANGED out
  /\ last' = Op("item", "", <<>>)
  /\ UNCHANGED <<val, pipe, warnings, invocations, forms, conn, ioLog, disk>>

\* p.start()
StartProcess ==
  /\ frame.pc \in {"start", "ready_start"}
  /\ procs' = [procs EXCEPT ![frame.p] = "alive"]
  /\ Goto(IF frame.pc = "start" THEN "call" ELSE "ready_terminate")
  /\ last' = Op("start", "", <<>>)
  /\ UNCHANGED <<val, pipe, out, warnings, invocations, nOps, forms, conn, ioLog, disk>>

\* function(*args, **kwargs): the wrapped function returns, or faults
CallWrapped(returns) ==
  /\ frame.pc = "call"
  /\ invocations' = invocations + 1
  /\ IF returns THEN Goto("terminate") /\ UNCHANGED out ELSE Propagate
  /\ last' = Op("call", "", frame.args)
  /\ UNCHANGED <<val, pipe, warnings, nOps, forms, conn, ioLog, disk, procs>>

\* p.terminate()
TerminateProcess ==
  /\ frame.pc \in {"terminate", "ready_terminate"}
  /\ procs' = [procs EXCEPT ![frame.p] = "terminated"]
  /\ IF frame.pc = "terminate" THEN Goto("loop") /\ UNCHANGED out
     ELSE frame' = [frame EXCEPT !.pc = "done"] /\ out' = Ret(PyNone)
  /\ last' = Op("terminate", "", <<>>)
  /\ UNCHANGED <<val, pipe, warnings, invocations, nOps, forms, conn, ioLog, disk>>

NextProgress ==
  \/ \E a \in CallArgs : CallDecorated(a)
  \/ NextItem
  \/ StartProcess
  \/ \E returns \in BOOLEAN : CallWrapped(returns)
  \/ TerminateProcess
SpecProgress == InitProgress /\ [][NextProgress]_vars

\* C19: at most one auxiliary process is alive at any time; while the
\* wrapped function runs for an item, the one process started for that item
\* is alive, and it is terminated when the call has returned; once the
\* decorated function has finished, normally or by a fault of the wrapped
\* function, no auxiliary process is alive.
C19_ProcessLifecycle ==
  /\ Cardinality(Alive) <= 1
  /\ frame.pc = "call" => Alive = {frame.p} /\ frame.p = nOps
  /\ frame.pc = "loop" => Alive = {} /\ Len(procs) = nOps
  /\ frame.pc = "done" => Alive = {}

====
